---- MODULE Spec2Model ----
(***************************************************************************)
(* Model of the expense-tracker command line tool (src/index.js).          *)
(*                                                                         *)
(* One run of the tool is one command: it loads expenses.json and/or       *)
(* config.json, acts, possibly writes a file, prints, and exits.  The      *)
(* state is therefore the two files, and each action below is one whole    *)
(* invocation of main() (src/index.js:226-293) together with the handler   *)
(* it dispatches to.  Where two invocations run at once, each is split at  *)
(* its calls of loadExpenses and saveExpenses, and procs holds what each   *)
(* process has in memory between the two.                                  *)
(*                                                                         *)
(* Representation.                                                         *)
(*  - A JavaScript string is a sequence of one-character strings.          *)
(*  - A JavaScript number is a record [k, v]: k = "fin" with v the value   *)
(*    in hundredths (so 10 is 1000 and 0.5 is 50), k = "nan", or k = "inf" *)
(*    with v the sign.  JSON null and undefined are k = "null", "undef".   *)
(*    The tokens of the model carry at most two fraction digits, no        *)
(*    exponent, no hex prefix and no white space, and stay small enough    *)
(*    to be exact in binary floating point sums.                           *)
(*  - A command line option value is what parseArgs produces: undefined    *)
(*    (option not given), true (option given bare), or a non-empty string. *)
(*  - A date keeps month and day; the year is never read by the code       *)
(*    except to print it, and is left out.                                 *)
(***************************************************************************)
EXTENDS Integers, Sequences, FiniteSets

VARIABLES expensesFile, configFile, out, budgetSet, procs

vars == <<expensesFile, configFile, out, budgetSet, procs>>

-----------------------------------------------------------------------------
(* JavaScript numbers *)

\* numbers are kept in hundredths: the two decimals toFixed(2) prints
Scale == 10 * 10

Fin(v) == [k |-> "fin", v |-> v]
NaN == [k |-> "nan", v |-> 0]
Infinity == [k |-> "inf", v |-> 1]
Null == [k |-> "null", v |-> 0]
Undef == [k |-> "undef", v |-> 0]

\* ToNumber on a number, null or undefined
NumOf(x) ==
    IF x.k = "null" THEN Fin(0)
    ELSE IF x.k = "undef" THEN NaN
    ELSE x

\* a + b on numbers (after ToNumber)
Plus(x, y) ==
    LET a == NumOf(x)
        b == NumOf(y)
    IN  IF a.k = "nan" \/ b.k = "nan" THEN NaN
        ELSE IF a.k = "inf" /\ b.k = "inf"
             THEN (IF a.v = b.v THEN a ELSE NaN)
        ELSE IF a.k = "inf" THEN a
        ELSE IF b.k = "inf" THEN b
        ELSE Fin(a.v + b.v)

\* a < b on numbers (after ToNumber); false when either is NaN
Less(x, y) ==
    LET a == NumOf(x)
        b == NumOf(y)
    IN  IF a.k = "nan" \/ b.k = "nan" THEN FALSE
        ELSE IF a.k = "inf" /\ b.k = "inf" THEN a.v < b.v
        ELSE IF a.k = "inf" THEN a.v < 0
        ELSE IF b.k = "inf" THEN b.v > 0
        ELSE a.v < b.v

Greater(x, y) == Less(y, x)

\* a <= b on numbers: not NaN, and not b < a
LessEq(x, y) ==
    /\ NumOf(x).k # "nan"
    /\ NumOf(y).k # "nan"
    /\ ~Less(y, x)

\* JSON.stringify followed by JSON.parse of a number: a non-finite one is null
JsonNumber(x) == IF x.k = "fin" THEN x ELSE Null

-----------------------------------------------------------------------------
(* JavaScript strings and the conversions the code applies to them *)

Digits == <<"0", "1", "2", "3", "4", "5", "6", "7", "8", "9">>

IsDigit(c) == \E i \in 1..10 : Digits[i] = c

DigitVal(c) == (CHOOSE i \in 1..10 : Digits[i] = c) - 1

InfinityWord == <<"I", "n", "f", "i", "n", "i", "t", "y">>

StartsWith(s, p) == Len(s) >= Len(p) /\ SubSeq(s, 1, Len(p)) = p

Drop(s, n) == SubSeq(s, n + 1, Len(s))

\* the length of the longest prefix of s made of digits
RECURSIVE DigitPrefixLen(_)
DigitPrefixLen(s) ==
    IF s # <<>> /\ IsDigit(Head(s)) THEN 1 + DigitPrefixLen(Tail(s)) ELSE 0

\* the value of a digit string (0 for the empty one)
RECURSIVE DigitsValue(_)
DigitsValue(ds) ==
    IF ds = <<>> THEN 0
    ELSE 10 * DigitsValue(SubSeq(ds, 1, Len(ds) - 1)) + DigitVal(ds[Len(ds)])

\* the fraction digits ds in hundredths
FractionValue(ds) ==
    IF ds = <<>> THEN 0
    ELSE IF Len(ds) = 1 THEN 10 * DigitVal(ds[1])
    ELSE 10 * DigitVal(ds[1]) + DigitVal(ds[2])

HasSign(s) == s # <<>> /\ Head(s) \in {"-", "+"}

SignOf(s) == IF s # <<>> /\ Head(s) = "-" THEN -1 ELSE 1

Unsigned(s) == IF HasSign(s) THEN Tail(s) ELSE s

\* the longest prefix of the unsigned string u that is a decimal literal:
\* digits, then optionally a point and digits; [n, i, f] are its length, its
\* integer digits and its fraction digits (n = 0: there is none)
DecimalPrefix(u) ==
    LET ni == DigitPrefixLen(u)
        afterInt == Drop(u, ni)
        hasPoint == afterInt # <<>> /\ Head(afterInt) = "."
        nf == IF hasPoint THEN DigitPrefixLen(Tail(afterInt)) ELSE 0
    IN  IF ni = 0 /\ nf = 0 THEN [n |-> 0, i |-> <<>>, f |-> <<>>]
        ELSE [n |-> ni + (IF hasPoint THEN 1 + nf ELSE 0),
              i |-> SubSeq(u, 1, ni),
              f |-> IF hasPoint THEN SubSeq(u, ni + 2, ni + 1 + nf) ELSE <<>>]

DecimalValue(sign, p) ==
    Fin(sign * (Scale * DigitsValue(p.i) + FractionValue(p.f)))

\* Number(s): the whole string must be a numeric literal
StringToNumber(s) ==
    LET u == Unsigned(s)
        p == DecimalPrefix(u)
    IN  IF s = <<>> THEN Fin(0)
        ELSE IF u = InfinityWord THEN [k |-> "inf", v |-> SignOf(s)]
        ELSE IF p.n > 0 /\ p.n = Len(u) THEN DecimalValue(SignOf(s), p)
        ELSE NaN

\* parseFloat(s): the longest prefix that is a numeric literal
ParseFloatStr(s) ==
    LET u == Unsigned(s)
        p == DecimalPrefix(u)
    IN  IF StartsWith(u, InfinityWord) THEN [k |-> "inf", v |-> SignOf(s)]
        ELSE IF p.n > 0 THEN DecimalValue(SignOf(s), p)
        ELSE NaN

\* parseInt(s): the sign and the leading digits
ParseIntStr(s) ==
    LET u == Unsigned(s)
        n == DigitPrefixLen(u)
    IN  IF n = 0 THEN NaN
        ELSE Fin(SignOf(s) * Scale * DigitsValue(SubSeq(u, 1, n)))

\* String(n) of an integer n
RECURSIVE NatToStr(_)
NatToStr(n) ==
    IF n < 10 THEN <<Digits[n + 1]>>
    ELSE Append(NatToStr(n \div 10), Digits[(n % 10) + 1])

IntToStr(n) == IF n < 0 THEN <<"-">> \o NatToStr(-n) ELSE NatToStr(n)

UpperCase == <<"A", "B", "C", "D", "E", "F", "G", "H", "I", "J", "K", "L", "M",
               "N", "O", "P", "Q", "R", "S", "T", "U", "V", "W", "X", "Y", "Z">>

LowerCase == <<"a", "b", "c", "d", "e", "f", "g", "h", "i", "j", "k", "l", "m",
               "n", "o", "p", "q", "r", "s", "t", "u", "v", "w", "x", "y", "z">>

LowerChar(c) ==
    IF \E i \in 1..26 : UpperCase[i] = c
    THEN LowerCase[CHOOSE i \in 1..26 : UpperCase[i] = c]
    ELSE c

\* s.toLowerCase()
ToLowerCase(s) == [i \in 1..Len(s) |-> LowerChar(s[i])]

-----------------------------------------------------------------------------
(* Option values: what parseArgs (src/index.js:62-78) puts in the bag *)

Str(s) == [t |-> "str", s |-> s, n |-> 0]
True == [t |-> "bool", s |-> <<>>, n |-> 1]
Undefined == [t |-> "undef", s |-> <<>>, n |-> 0]
Num(n) == [t |-> "num", s |-> <<>>, n |-> n]

\* the value in a boolean context
Truthy(x) ==
    IF x.t = "str" THEN x.s # <<>>
    ELSE IF x.t = "bool" THEN TRUE
    ELSE IF x.t = "num" THEN x.n # 0
    ELSE FALSE

\* ToNumber(x)
ToNumber(x) ==
    IF x.t = "str" THEN StringToNumber(x.s)
    ELSE IF x.t = "bool" THEN Fin(Scale)
    ELSE IF x.t = "num" THEN Fin(Scale * x.n)
    ELSE NaN

\* JSToString(x)
JSToString(x) ==
    IF x.t = "str" THEN x.s
    ELSE IF x.t = "bool" THEN <<"t", "r", "u", "e">>
    ELSE IF x.t = "num" THEN IntToStr(x.n)
    ELSE <<"u", "n", "d", "e", "f", "i", "n", "e", "d">>

isNaN(x) == ToNumber(x).k = "nan"

parseFloat(x) == ParseFloatStr(JSToString(x))

parseInt(x) == ParseIntStr(JSToString(x))

-----------------------------------------------------------------------------
(* The clock: new Date(), toISOString(), getMonth() *)

DaysIn(m) ==
    IF m = 2 THEN 28
    ELSE IF m \in {4, 6, 9, 11} THEN 30
    ELSE 31

\* Date.prototype.getMonth() + 1 of the instant t = [month, day, hour] (UTC)
\* in a process whose local time is UTC + off hours
LocalMonth(t, off) ==
    LET h == t.hour + off
    IN  IF h < 0 /\ t.day = 1 THEN (IF t.month = 1 THEN 12 ELSE t.month - 1)
        ELSE IF h >= 24 /\ t.day = DaysIn(t.month)
             THEN (IF t.month = 12 THEN 1 ELSE t.month + 1)
        ELSE t.month

\* date.toISOString().split('T')[0]: the UTC date of the instant
IsoDate(t) == [m |-> t.month, d |-> t.day]

\* new Date("YYYY-MM-DD"): a date-only string is midnight UTC of that day
DateOf(date) == [month |-> date.m, day |-> date.d, hour |-> 0]

-----------------------------------------------------------------------------
(* The two stores *)

AbsentFile == [kind |-> "absent", data |-> <<>>]
CorruptFile == [kind |-> "corrupt", data |-> <<>>]

loadExpenses(f) == IF f.kind = "json" THEN f.data ELSE <<>>

\* the array as JSON.stringify writes it and JSON.parse reads it back
RECURSIVE JsonArray(_)
JsonArray(expenses) ==
    IF expenses = <<>> THEN <<>>
    ELSE <<[Head(expenses) EXCEPT !.amount = JsonNumber(@)]>>
         \o JsonArray(Tail(expenses))

saveExpenses(expenses) == [kind |-> "json", data |-> JsonArray(expenses)]

AbsentConfig == [kind |-> "absent", monthlyBudget |-> Undef]
CorruptConfig == [kind |-> "corrupt", monthlyBudget |-> Undef]

\* the object loadConfig returns
loadConfig(f) ==
    IF f.kind = "json" THEN [monthlyBudget |-> f.monthlyBudget]
    ELSE IF f.kind = "corrupt" THEN [monthlyBudget |-> Undef]
    ELSE [monthlyBudget |-> Fin(0)]

\* config.json after a loadConfig that resets an unparsable file as well
ConfigAfterLoadResets(f) ==
    IF f.kind \in {"absent", "corrupt"}
    THEN [kind |-> "json", monthlyBudget |-> Fin(0)]
    ELSE f

\* config.json after loadConfig ran: an absent file is created with budget 0
ConfigAfterLoad(f) ==
    IF f.kind = "absent" THEN [kind |-> "json", monthlyBudget |-> Fin(0)]
    ELSE f

saveConfig(config) ==
    [kind |-> "json", monthlyBudget |-> JsonNumber(config.monthlyBudget)]

-----------------------------------------------------------------------------
(* The ledger computations *)

\* expenses.reduce((sum, expense) => sum + expense.amount, 0)
RECURSIVE SumAmounts(_)
SumAmounts(expenses) ==
    IF expenses = <<>> THEN Fin(0)
    ELSE Plus(SumAmounts(SubSeq(expenses, 1, Len(expenses) - 1)),
              expenses[Len(expenses)].amount)

\* computeExpenses(month, expenses) in a process at UTC + off
computeExpenses(month, expenses, off) ==
    LET targetMonth == parseInt(month)
    IN  SumAmounts(SelectSeq(expenses,
            LAMBDA e : Fin(Scale * LocalMonth(DateOf(e.date), off)) = targetMonth))

\* the identifier of the last record taken again
NextIdOfLast(expenses) ==
    IF Len(expenses) > 0 THEN expenses[Len(expenses)].id ELSE 1

\* the identifier counted from 0 in an empty ledger
NextIdFromZero(expenses) ==
    IF Len(expenses) > 0 THEN expenses[Len(expenses)].id + 1 ELSE 0

\* expenses.length > 0 ? expenses[expenses.length - 1].id + 1 : 1
NextId(expenses) ==
    IF Len(expenses) > 0 THEN expenses[Len(expenses)].id + 1 ELSE 1

\* the loop without the renumbering of the records after the deleted one
RECURSIVE DeleteLoopNoShift(_, _, _, _, _)
DeleteLoopNoShift(expenses, targetId, i, found, updatedExpenses) ==
    IF i > Len(expenses) THEN [found |-> found, updatedExpenses |-> updatedExpenses]
    ELSE IF Fin(Scale * expenses[i].id) = targetId
         THEN DeleteLoopNoShift(expenses, targetId, i + 1, TRUE, updatedExpenses)
    ELSE DeleteLoopNoShift(expenses, targetId, i + 1, found,
             Append(updatedExpenses, expenses[i]))

\* the loop keeping the deleted record's neighbour in its place: the record
\* after the deleted one is renumbered, the ones after it are not
RECURSIVE DeleteLoopShiftOne(_, _, _, _, _)
DeleteLoopShiftOne(expenses, targetId, i, found, updatedExpenses) ==
    IF i > Len(expenses) THEN [found |-> found, updatedExpenses |-> updatedExpenses]
    ELSE IF Fin(Scale * expenses[i].id) = targetId
         THEN DeleteLoopShiftOne(expenses, targetId, i + 1, TRUE, updatedExpenses)
    ELSE DeleteLoopShiftOne(expenses, targetId, i + 1, found,
             Append(updatedExpenses,
                    IF found /\ Fin(Scale * (expenses[i].id - 1)) = targetId
                    THEN [expenses[i] EXCEPT !.id = @ - 1]
                    ELSE expenses[i]))

\* the loop of deleteExpense from index i on: [found, updatedExpenses]
RECURSIVE DeleteLoop(_, _, _, _, _)
DeleteLoop(expenses, targetId, i, found, updatedExpenses) ==
    IF i > Len(expenses) THEN [found |-> found, updatedExpenses |-> updatedExpenses]
    ELSE IF Fin(Scale * expenses[i].id) = targetId
         THEN DeleteLoop(expenses, targetId, i + 1, TRUE, updatedExpenses)
    ELSE DeleteLoop(expenses, targetId, i + 1, found,
             Append(updatedExpenses,
                    IF found THEN [expenses[i] EXCEPT !.id = @ - 1]
                    ELSE expenses[i]))

-----------------------------------------------------------------------------
(* Printing: toFixed(2), the date string, a row of the export *)

TwoDigits(n) == <<Digits[(n \div 10) + 1], Digits[(n % 10) + 1]>>

\* x.toFixed(2) of a number
ToFixed2(x) ==
    IF x.k = "nan" THEN <<"N", "a", "N">>
    ELSE IF x.k = "inf"
         THEN (IF x.v < 0 THEN <<"-">> ELSE <<>>) \o InfinityWord
    ELSE LET a == IF x.v < 0 THEN -x.v ELSE x.v
         IN  (IF x.v < 0 THEN <<"-">> ELSE <<>>)
             \o NatToStr(a \div Scale) \o <<".">> \o TwoDigits(a % Scale)

YearWord == <<"2", "0", "2", "5">>

\* the stored date string, "YYYY-MM-DD"
DateString(date) ==
    YearWord \o <<"-">> \o TwoDigits(date.m) \o <<"-">> \o TwoDigits(date.d)

\* description.replace(/"/g, '""')
RECURSIVE DoubleQuotes(_)
DoubleQuotes(s) ==
    IF s = <<>> THEN <<>>
    ELSE (IF Head(s) = "\"" THEN <<"\"", "\"">> ELSE <<Head(s)>>)
         \o DoubleQuotes(Tail(s))

CsvHeader ==
    <<"I", "D", ",", "C", "a", "t", "e", "g", "o", "r", "y", ",", "D", "a", "t",
      "e", ",", "A", "m", "o", "u", "n", "t", ",", "D", "e", "s", "c", "r", "i",
      "p", "t", "i", "o", "n", "\n">>

CsvRow(expense) ==
    IntToStr(expense.id) \o <<",">> \o expense.category \o <<",">>
    \o DateString(expense.date) \o <<",">> \o ToFixed2(expense.amount)
    \o <<",", "\"">> \o DoubleQuotes(expense.description.s) \o <<"\"">>

\* rows.join("\n")
RECURSIVE JoinRows(_)
JoinRows(rows) ==
    IF rows = <<>> THEN <<>>
    ELSE IF Len(rows) = 1 THEN rows[1]
    ELSE rows[1] \o <<"\n">> \o JoinRows(Tail(rows))

\* a property read that throws a TypeError: toFixed of null or undefined,
\* a string method of a value that is not a string
NoToFixed(x) == x.k \in {"null", "undef"}
NoStringMethod(x) == x.t # "str"

-----------------------------------------------------------------------------
(* What the last command did: its result, what it printed (the identifier
   of the success message of add among it) and wrote, the local-time offset
   of its process (and which process it was, where two run at once), and
   the two stores as they were before it.  expenses.csv is only ever written, so
   the model keeps it as part of the last command's output. *)

Report(cmd, arg) ==
    [cmd |-> cmd, arg |-> arg, result |-> "ok", warned |-> FALSE,
     total |-> Undef, wroteLedger |-> FALSE, wroteConfig |-> FALSE,
     wroteCsv |-> FALSE, csv |-> <<>>, listed |-> <<>>, off |-> 0, id |-> 0,
     proc |-> 0, pre |-> expensesFile, preCfg |-> configFile]

-----------------------------------------------------------------------------
(* The handlers *)

ValidCategories ==
    { <<"f", "o", "o", "d">>,
      <<"t", "r", "a", "n", "s", "p", "o", "r", "t">>,
      <<"e", "n", "t", "e", "r", "t", "a", "i", "n", "m", "e", "n", "t">>,
      <<"u", "t", "i", "l", "i", "t", "i", "e", "s">>,
      <<"o", "t", "h", "e", "r">> }

\* isNaN(amount) || amount <= 0
AmountRejected(amount) ==
    isNaN(amount) \/ LessEq(ToNumber(amount), Fin(0))

\* totalExpenses > config.monthlyBudget
ExceedsBudget(totalExpenses, config) ==
    Greater(totalExpenses, config.monthlyBudget)

\* addExpense(amount, description, category) run at the instant now in a
\* process at UTC + off
addExpense(amount, description, category, now, off) ==
    LET expenses == loadExpenses(expensesFile)
        expensesID == NextId(expenses)
        newExpense == [id |-> expensesID,
                       category |-> category.s,
                       date |-> IsoDate(now),
                       amount |-> parseFloat(amount),
                       description |-> description]
        config == loadConfig(configFile)
        month == LocalMonth(now, off)
        totalExpenses == Plus(computeExpenses(Num(month), expenses, off),
                              newExpense.amount)
        rep == [Report("add", amount) EXCEPT !.off = off]
    IN  IF AmountRejected(amount)
        THEN /\ out' = [rep EXCEPT !.result = "InvalidAmount"]
             /\ UNCHANGED <<expensesFile, configFile>>
        ELSE IF ExceedsBudget(totalExpenses, config)
                /\ NoToFixed(config.monthlyBudget)
        THEN \* the warning line throws before the push and the save
             /\ out' = [rep EXCEPT !.result = "BudgetTypeError",
                                   !.total = totalExpenses,
                                   !.wroteConfig = (configFile.kind = "absent")]
             /\ configFile' = ConfigAfterLoad(configFile)
             /\ UNCHANGED expensesFile
        ELSE /\ expensesFile' = saveExpenses(Append(expenses, newExpense))
             /\ configFile' = ConfigAfterLoad(configFile)
             /\ out' = [rep EXCEPT !.warned = ExceedsBudget(totalExpenses, config),
                                   !.total = totalExpenses,
                                   !.id = newExpense.id,
                                   !.wroteLedger = TRUE,
                                   !.wroteConfig = (configFile.kind = "absent")]

\* listExpenses(category) writing the records it selected back to the ledger
listExpensesSaves(cmd, category) ==
    LET all == loadExpenses(expensesFile)
        rep == Report(cmd, category)
        expenses == IF Truthy(category) /\ ~NoStringMethod(category)
                    THEN SelectSeq(all, LAMBDA e :
                             ToLowerCase(e.category) = ToLowerCase(category.s))
                    ELSE all
    IN  /\ out' = IF Len(expenses) = 0
                  THEN [rep EXCEPT !.result = "Empty"]
                  ELSE [rep EXCEPT !.listed = expenses]
        /\ expensesFile' = saveExpenses(expenses)
        /\ UNCHANGED configFile

\* listExpenses(category)
listExpenses(cmd, category) ==
    LET all == loadExpenses(expensesFile)
        rep == Report(cmd, category)
        expenses == IF Truthy(category) /\ ~NoStringMethod(category)
                    THEN SelectSeq(all, LAMBDA e :
                             ToLowerCase(e.category) = ToLowerCase(category.s))
                    ELSE all
    IN  /\ out' = IF Truthy(category) /\ NoStringMethod(category) /\ all # <<>>
                  THEN [rep EXCEPT !.result = "TypeError"]
                  ELSE IF Len(expenses) = 0
                  THEN [rep EXCEPT !.result = "Empty"]
                  ELSE IF \E i \in 1..Len(expenses) : NoToFixed(expenses[i].amount)
                  THEN [rep EXCEPT !.result = "TypeError"]
                  ELSE [rep EXCEPT !.listed = expenses]
        /\ UNCHANGED <<expensesFile, configFile>>

\* month < 12 && month > 0
MonthInRange(month) ==
    Less(ToNumber(month), Fin(Scale * 12)) /\ Greater(ToNumber(month), Fin(0))

\* month === 0
IsZero(month) == month.t = "num" /\ month.n = 0

\* summaryExpenses(month) in a process at UTC + off
summaryExpenses(arg, month, off) ==
    LET expenses == loadExpenses(expensesFile)
        rep == [Report("summary", arg) EXCEPT !.off = off]
    IN  /\ out' = IF IsZero(month)
                  THEN [rep EXCEPT !.total = SumAmounts(expenses)]
                  ELSE IF MonthInRange(month)
                  THEN [rep EXCEPT !.total = computeExpenses(month, expenses, off)]
                  ELSE [rep EXCEPT !.result = "InvalidMonth"]
        /\ UNCHANGED <<expensesFile, configFile>>

\* deleteExpense(id) without the return of the not-found branch
deleteExpenseAlwaysSaves(id) ==
    LET expenses == loadExpenses(expensesFile)
        targetId == parseInt(id)
        loop == DeleteLoop(expenses, targetId, 1, FALSE, <<>>)
        rep == Report("delete", id)
    IN  /\ expensesFile' = saveExpenses(loop.updatedExpenses)
        /\ out' = [rep EXCEPT !.wroteLedger = TRUE,
                              !.result = IF loop.found THEN "ok" ELSE "NotFound"]
        /\ UNCHANGED configFile

\* deleteExpense(id)
deleteExpense(id) ==
    LET expenses == loadExpenses(expensesFile)
        targetId == parseInt(id)
        loop == DeleteLoop(expenses, targetId, 1, FALSE, <<>>)
        rep == Report("delete", id)
    IN  IF ~loop.found
        THEN /\ out' = [rep EXCEPT !.result = "NotFound"]
             /\ UNCHANGED <<expensesFile, configFile>>
        ELSE /\ expensesFile' = saveExpenses(loop.updatedExpenses)
             /\ out' = [rep EXCEPT !.wroteLedger = TRUE]
             /\ UNCHANGED configFile

\* setBudget(amount)
setBudget(amount) ==
    LET config == loadConfig(configFile)
        rep == Report("set-budget", amount)
    IN  IF AmountRejected(amount)
        THEN /\ out' = [rep EXCEPT !.result = "InvalidAmount",
                                   !.wroteConfig = (configFile.kind = "absent")]
             /\ configFile' = ConfigAfterLoad(configFile)
             /\ UNCHANGED <<expensesFile, budgetSet, procs>>
        ELSE /\ configFile' = saveConfig([config EXCEPT
                                             !.monthlyBudget = parseFloat(amount)])
             /\ out' = [rep EXCEPT !.wroteConfig = TRUE]
             /\ budgetSet' = TRUE
             /\ UNCHANGED <<expensesFile, procs>>

\* extractToCSV()
extractToCSV ==
    LET expenses == loadExpenses(expensesFile)
        rep == Report("export", Undefined)
        rows == [i \in 1..Len(expenses) |-> CsvRow(expenses[i])]
    IN  /\ out' = IF Len(expenses) = 0
                  THEN [rep EXCEPT !.result = "Empty"]
                  ELSE IF \E i \in 1..Len(expenses) :
                              \/ NoToFixed(expenses[i].amount)
                              \/ NoStringMethod(expenses[i].description)
                  THEN [rep EXCEPT !.result = "TypeError"]
                  ELSE [rep EXCEPT !.wroteCsv = TRUE,
                                   !.csv = CsvHeader \o JoinRows(rows)]
        /\ UNCHANGED <<expensesFile, configFile>>

-----------------------------------------------------------------------------
(* main(): one action per command, the whole invocation *)

\* the longest ledger the model lets add build
MaxLen == 3

\* case 'add'
CmdAdd(amount, description, category, now, off) ==
    /\ Len(loadExpenses(expensesFile)) < MaxLen
    /\ IF ~Truthy(category)
       THEN /\ out' = [Report("add", amount) EXCEPT !.result = "MissingCategory"]
            /\ UNCHANGED <<expensesFile, configFile>>
       ELSE IF NoStringMethod(category)
       THEN /\ out' = [Report("add", amount) EXCEPT !.result = "CategoryTypeError"]
            /\ UNCHANGED <<expensesFile, configFile>>
       ELSE IF ToLowerCase(category.s) \notin ValidCategories
       THEN /\ out' = [Report("add", amount) EXCEPT !.result = "InvalidCategory"]
            /\ UNCHANGED <<expensesFile, configFile>>
       ELSE IF Truthy(amount) /\ Truthy(description)
       THEN addExpense(amount, description, category, now, off)
       ELSE /\ out' = [Report("add", amount) EXCEPT !.result = "Usage"]
            /\ UNCHANGED <<expensesFile, configFile>>
    /\ UNCHANGED <<budgetSet, procs>>

\* case 'list'
CmdList ==
    /\ listExpenses("list", Undefined)
    /\ UNCHANGED <<budgetSet, procs>>

\* case 'summary'
CmdSummary(month, off) ==
    /\ summaryExpenses(month, IF Truthy(month) THEN month ELSE Num(0), off)
    /\ UNCHANGED <<budgetSet, procs>>

\* case 'delete'
CmdDelete(id) ==
    /\ IF Truthy(id)
       THEN deleteExpense(id)
       ELSE /\ out' = [Report("delete", id) EXCEPT !.result = "Usage"]
            /\ UNCHANGED <<expensesFile, configFile>>
    /\ UNCHANGED <<budgetSet, procs>>

\* case 'filter'
CmdFilter(category) ==
    /\ IF Truthy(category)
       THEN listExpenses("filter", category)
       ELSE /\ out' = [Report("filter", category) EXCEPT !.result = "Usage"]
            /\ UNCHANGED <<expensesFile, configFile>>
    /\ UNCHANGED <<budgetSet, procs>>

\* case 'set-budget'
CmdSetBudget(amount) ==
    IF ~Truthy(amount)
    THEN /\ out' = [Report("set-budget", amount) EXCEPT !.result = "Usage"]
         /\ UNCHANGED <<expensesFile, configFile, budgetSet, procs>>
    ELSE IF Greater(ToNumber(amount), Fin(0))
    THEN setBudget(amount)
    ELSE /\ out' = [Report("set-budget", amount) EXCEPT !.result = "InvalidAmount"]
         /\ UNCHANGED <<expensesFile, configFile, budgetSet, procs>>

\* case 'export'
CmdExport ==
    /\ extractToCSV
    /\ UNCHANGED <<budgetSet, procs>>

\* default: the usage text
CmdHelp ==
    /\ out' = [Report("help", Undefined) EXCEPT !.result = "Usage"]
    /\ UNCHANGED <<expensesFile, configFile, budgetSet, procs>>

-----------------------------------------------------------------------------
(* Two invocations at once.  Nothing coordinates two processes of the tool:
   each reads expenses.json in loadExpenses and writes it whole in
   saveExpenses, and the other process may run between the two calls.  An
   invocation of add or delete is therefore two steps: the first runs from
   loadExpenses to the last statement before the next file access, the
   second from there to the end. *)

Procs == {1, 2}

NoExpense ==
    [id |-> 0, category |-> <<>>, date |-> [m |-> 1, d |-> 1],
     amount |-> Undef, description |-> Undefined]

\* a process that is not between its load and its save
Idle ==
    [pc |-> "idle", cmd |-> "none", arg |-> Undefined, expenses |-> <<>>,
     newExpense |-> NoExpense, now |-> [month |-> 1, day |-> 1, hour |-> 0],
     off |-> 0]

\* a process that has saved the array expenses and exited
Exited(expenses) == [Idle EXCEPT !.pc = "done", !.expenses = expenses]

\* addExpense from loadExpenses to the new record
AddLoad(p, amount, description, category, now, off) ==
    /\ procs[p].pc # "loaded"
    /\ Len(loadExpenses(expensesFile)) < MaxLen
    /\ LET expenses == loadExpenses(expensesFile)
           expensesID == NextId(expenses)
           newExpense == [id |-> expensesID,
                          category |-> category.s,
                          date |-> IsoDate(now),
                          amount |-> parseFloat(amount),
                          description |-> description]
       IN  IF AmountRejected(amount)
           THEN /\ out' = [Report("add", amount) EXCEPT
                              !.result = "InvalidAmount", !.off = off,
                              !.proc = p]
                /\ procs' = [procs EXCEPT ![p] = Idle]
           ELSE /\ procs' = [procs EXCEPT ![p] =
                               [pc |-> "loaded", cmd |-> "add", arg |-> amount,
                                expenses |-> expenses,
                                newExpense |-> newExpense,
                                now |-> now, off |-> off]]
                /\ UNCHANGED out
    /\ UNCHANGED <<expensesFile, configFile, budgetSet>>

\* addExpense saving the record at the end of whatever the file holds by
\* then, with the identifier it chose when it loaded
AddSaveAppending(p) ==
    /\ procs[p].pc = "loaded"
    /\ procs[p].cmd = "add"
    /\ LET me == procs[p]
           expenses == Append(loadExpenses(expensesFile), me.newExpense)
       IN  /\ expensesFile' = saveExpenses(expenses)
           /\ configFile' = ConfigAfterLoad(configFile)
           /\ procs' = [procs EXCEPT ![p] = Exited(expenses)]
           /\ out' = [Report("add", me.arg) EXCEPT
                         !.off = me.off, !.proc = p, !.id = me.newExpense.id,
                         !.wroteLedger = TRUE,
                         !.wroteConfig = (configFile.kind = "absent")]
    /\ UNCHANGED budgetSet

\* addExpense from loadConfig to the end
AddSave(p) ==
    /\ procs[p].pc = "loaded"
    /\ procs[p].cmd = "add"
    /\ LET me == procs[p]
           config == loadConfig(configFile)
           month == LocalMonth(me.now, me.off)
           totalExpenses == Plus(computeExpenses(Num(month), me.expenses, me.off),
                                 me.newExpense.amount)
           expenses == Append(me.expenses, me.newExpense)
           rep == [Report("add", me.arg) EXCEPT !.off = me.off, !.proc = p]
       IN  IF ExceedsBudget(totalExpenses, config)
              /\ NoToFixed(config.monthlyBudget)
           THEN /\ out' = [rep EXCEPT !.result = "BudgetTypeError",
                                      !.total = totalExpenses,
                                      !.wroteConfig = (configFile.kind = "absent")]
                /\ configFile' = ConfigAfterLoad(configFile)
                /\ procs' = [procs EXCEPT ![p] = Idle]
                /\ UNCHANGED expensesFile
           ELSE /\ expensesFile' = saveExpenses(expenses)
                /\ configFile' = ConfigAfterLoad(configFile)
                /\ procs' = [procs EXCEPT ![p] = Exited(expenses)]
                /\ out' = [rep EXCEPT
                              !.warned = ExceedsBudget(totalExpenses, config),
                              !.total = totalExpenses,
                              !.id = me.newExpense.id,
                              !.wroteLedger = TRUE,
                              !.wroteConfig = (configFile.kind = "absent")]
    /\ UNCHANGED budgetSet

\* deleteExpense from loadExpenses to the test of found
DeleteLoad(p, id) ==
    /\ procs[p].pc # "loaded"
    /\ Truthy(id)
    /\ LET expenses == loadExpenses(expensesFile)
           targetId == parseInt(id)
           loop == DeleteLoop(expenses, targetId, 1, FALSE, <<>>)
       IN  IF ~loop.found
           THEN /\ out' = [Report("delete", id) EXCEPT
                              !.result = "NotFound", !.proc = p]
                /\ procs' = [procs EXCEPT ![p] = Idle]
           ELSE /\ procs' = [procs EXCEPT ![p] =
                               [Idle EXCEPT !.pc = "loaded", !.cmd = "delete",
                                            !.arg = id,
                                            !.expenses = loop.updatedExpenses]]
                /\ UNCHANGED out
    /\ UNCHANGED <<expensesFile, configFile, budgetSet>>

\* deleteExpense from saveExpenses to the end
DeleteSave(p) ==
    /\ procs[p].pc = "loaded"
    /\ procs[p].cmd = "delete"
    /\ expensesFile' = saveExpenses(procs[p].expenses)
    /\ out' = [Report("delete", procs[p].arg) EXCEPT
                  !.wroteLedger = TRUE, !.proc = p]
    /\ procs' = [procs EXCEPT ![p] = Exited(procs[p].expenses)]
    /\ UNCHANGED <<configFile, budgetSet>>

-----------------------------------------------------------------------------
(* The inputs the commands are run with *)

AmountArgs ==
    { Undefined, True,
      Str(<<"1", "0">>), Str(<<"0">>), Str(<<"-", "5">>), Str(<<"5", "a">>),
      Str(InfinityWord) }

Dinner == Str(<<"D", "i", "n", "n", "e", "r">>)

Food == Str(<<"f", "o", "o", "d">>)

DescriptionArgs == { Undefined, Dinner }

CategoryArgs == { Undefined, True, Food, Str(<<"p", "e", "t", "s">>) }

MonthArgs ==
    { Undefined, True,
      Str(<<"0">>), Str(<<"7">>), Str(<<"8">>), Str(<<"1", "2">>),
      Str(<<"1", "3">>), Str(<<"-", "1">>), Str(<<"7", ".", "5">>) }

IdArgs ==
    { Undefined, True,
      Str(<<"0">>), Str(<<"1">>), Str(<<"2">>), Str(<<"3">>), Str(<<"4">>),
      Str(<<"9">>), Str(<<"x">>) }

BudgetArgs ==
    { Undefined, True,
      Str(<<"2", "0">>), Str(<<"2", "5">>), Str(<<"0">>), Str(<<"-", "5">>),
      Str(<<"a", "b", "c">>), Str(InfinityWord) }

FilterArgs ==
    { Undefined, True, Str(<<"F", "O", "O", "D">>), Str(<<"o", "t", "h", "e", "r">>) }

\* instants of the system clock (UTC): just after a month began and just
\* before it ends
Clock ==
    { [month |-> 8, day |-> 1, hour |-> 3],
      [month |-> 8, day |-> 31, hour |-> 23] }

\* local-time offsets of the process, in hours from UTC
Offsets == { -5, 0 }

\* a description holding the field delimiter and the quote character: a,"b
Quoted == Str(<<"a", ",", "\"", "b">>)

\* categories typed with capitals
FoodUpper == Str(<<"F", "O", "O", "D">>)

OtherCapital == Str(<<"O", "t", "h", "e", "r">>)

\* --description given with a value, or bare
EntryDescriptions == { Quoted, True }

EntryCategories == { Food, FoodUpper, OtherCapital }

EntryIds == { Str(<<"1">>), Str(<<"2">>) }

\* an instant of the system clock away from any month boundary
Noon == [month |-> 8, day |-> 15, hour |-> 12]

-----------------------------------------------------------------------------
(* The specification *)

Init ==
    /\ expensesFile \in {AbsentFile, CorruptFile}
    /\ configFile \in {AbsentConfig, CorruptConfig}
    /\ budgetSet = FALSE
    /\ procs = [p \in Procs |-> Idle]
    /\ out = [Report("none", Undefined) EXCEPT !.result = "none"]

Next ==
    \/ \E amount \in AmountArgs, now \in Clock, off \in Offsets :
          CmdAdd(amount, Dinner, Food, now, off)
    \/ \E description \in DescriptionArgs, category \in CategoryArgs,
          now \in Clock :
          CmdAdd(Str(<<"1", "0">>), description, category, now, 0)
    \/ CmdList
    \/ \E month \in MonthArgs, off \in Offsets : CmdSummary(month, off)
    \/ \E id \in IdArgs : CmdDelete(id)
    \/ \E category \in FilterArgs : CmdFilter(category)
    \/ \E amount \in BudgetArgs : CmdSetBudget(amount)
    \/ CmdExport
    \/ CmdHelp

Spec == Init /\ [][Next]_vars

\* The tool run with the ways of typing a category and a description: every
\* add has the amount 10 and runs at the same instant.
NextEntries ==
    \/ \E description \in EntryDescriptions, category \in EntryCategories :
          CmdAdd(Str(<<"1", "0">>), description, category, Noon, 0)
    \/ CmdList
    \/ \E id \in EntryIds : CmdDelete(id)
    \/ \E category \in FilterArgs : CmdFilter(category)
    \/ CmdExport

SpecEntries == Init /\ [][NextEntries]_vars

\* the descriptions the two processes add with, and the amounts: one that is
\* accepted and one that is rejected
ConcurrentDescriptions == { Dinner, Quoted }

ConcurrentAmounts == { Str(<<"1", "0">>), Str(<<"0">>) }

\* Two processes of the tool, each running add and delete commands one after
\* the other, the steps of the two interleaved in any order.
NextConcurrent ==
    \/ \E p \in Procs, amount \in ConcurrentAmounts,
          description \in ConcurrentDescriptions :
          AddLoad(p, amount, description, Food, Noon, 0)
    \/ \E p \in Procs : AddSave(p)
    \/ \E p \in Procs, id \in EntryIds : DeleteLoad(p, id)
    \/ \E p \in Procs : DeleteSave(p)

SpecConcurrent == Init /\ [][NextConcurrent]_vars

-----------------------------------------------------------------------------
(* The claims *)

Ledger == loadExpenses(expensesFile)

Before == loadExpenses(out.pre)

Ids(expenses) == { expenses[i].id : i \in 1..Len(expenses) }

\* the integer a number in hundredths stands for
Whole(x) == x.v \div Scale

\* C1: after any sequence of commands the persisted ledger of N records has
\* the identifiers 1..N, the record at position i having identifier i.
C1_DenseIdentifiers ==
    \A i \in 1..Len(Ledger) : Ledger[i].id = i

\* C1 witness: a record was deleted from the middle of a full ledger
C1_Witness ==
    /\ out.cmd = "delete"
    /\ out.result = "ok"
    /\ Len(Before) = MaxLen
    /\ parseInt(out.arg) = Fin(Scale * 2)
    /\ Len(Ledger) = MaxLen - 1

\* C2: delete(k) with 1 <= k <= N succeeds and persists the N-1 other
\* records in their order, unchanged but for the identifier, which is kept
\* before position k and decremented by one after it; the identifiers are
\* exactly 1..N-1.
C2_DeleteRenumbers ==
    (/\ out.cmd = "delete"
     /\ Truthy(out.arg)
     /\ parseInt(out.arg).k = "fin"
     /\ Whole(parseInt(out.arg)) \in 1..Len(Before))
    => LET k == Whole(parseInt(out.arg))
       IN  /\ out.result = "ok"
           /\ Len(Ledger) = Len(Before) - 1
           /\ Ids(Ledger) = 1..(Len(Before) - 1)
           /\ \A i \in 1..(k - 1) : Ledger[i] = Before[i]
           /\ \A i \in k..Len(Ledger) :
                 Ledger[i] = [Before[i + 1] EXCEPT !.id = @ - 1]

\* C2 witness: the first of three records was deleted and the two renumbered
\* survivors differ in more than their identifier, so their order shows
C2_Witness ==
    /\ out.cmd = "delete"
    /\ out.result = "ok"
    /\ parseInt(out.arg) = Fin(Scale)
    /\ Len(Before) = 3
    /\ Before[2].date # Before[3].date
    /\ Before[2].amount # Before[3].amount

\* C3: delete with an identifier no record has signals NotFound, writes
\* nothing to the ledger store and leaves the ledger as it was.
C3_DeleteNotFound ==
    (/\ out.cmd = "delete"
     /\ Truthy(out.arg)
     /\ \A i \in 1..Len(Before) : Fin(Scale * Before[i].id) # parseInt(out.arg))
    => /\ out.result = "NotFound"
       /\ ~out.wroteLedger
       /\ expensesFile = out.pre

\* C3 witness: a delete of an identifier past the end of a non-empty ledger
C3_Witness ==
    /\ out.cmd = "delete"
    /\ out.result = "NotFound"
    /\ Len(Before) >= 2
    /\ out.arg.t = "str"

\* the add reached addExpense: main found a valid category, an amount and a
\* description
ReachedAddExpense ==
    /\ out.cmd = "add"
    /\ out.result \notin {"MissingCategory", "CategoryTypeError",
                          "InvalidCategory", "Usage"}

\* the amount of the option value x is a finite number greater than 0
PositiveFinite(x) == ToNumber(x).k = "fin" /\ ToNumber(x).v > 0

\* C4: add with an amount that is not a finite number or is <= 0 is rejected
\* with InvalidAmount: nothing is appended, neither store is written, the
\* ledger is unchanged.
C4_InvalidAmountRejected ==
    (ReachedAddExpense /\ ~PositiveFinite(out.arg))
    => /\ out.result = "InvalidAmount"
       /\ ~out.wroteLedger
       /\ ~out.wroteConfig
       /\ expensesFile = out.pre
       /\ configFile = out.preCfg

\* monthlyTotal(m, records) as the specification defines it: the sum of the
\* amounts of the records whose stored date has calendar month m
MonthlyTotal(m, expenses) ==
    SumAmounts(SelectSeq(expenses, LAMBDA e : e.date.m = m))

\* C5: on every valid add the warning is emitted exactly when the amounts of
\* the existing records of the new record's stored month plus the new amount
\* exceed the configured budget, and the record is appended either way.
\* (Stated where the configured budget and every stored amount are finite
\* numbers, an absent config being the default budget 0.)
C5_WarningIffOverBudget ==
    (/\ ReachedAddExpense
     /\ out.arg.t = "str"
     /\ PositiveFinite(out.arg)
     /\ loadConfig(out.preCfg).monthlyBudget.k = "fin"
     /\ \A i \in 1..Len(Before) : Before[i].amount.k = "fin")
    => /\ out.result = "ok"
       /\ Len(Ledger) = Len(Before) + 1
       /\ SubSeq(Ledger, 1, Len(Before)) = Before
       /\ out.warned <=>
             Greater(Plus(MonthlyTotal(Ledger[Len(Ledger)].date.m, Before),
                          Ledger[Len(Ledger)].amount),
                     loadConfig(out.preCfg).monthlyBudget)

\* C6: computeExpenses(m, records), for m in 1..12, is the sum of the amounts
\* of exactly the records whose stored date has month m, whatever the time
\* zone of the process.
C6_MonthlyTotalByStoredDate ==
    \A m \in 1..12 : \A off \in Offsets :
        computeExpenses(Num(m), Ledger, off) = MonthlyTotal(m, Ledger)

\* C7: summary with month 0, given as --month 0 or with the option left out,
\* reports the sum of all amounts and never signals InvalidMonth.
C7_SummaryOfMonthZero ==
    (/\ out.cmd = "summary"
     /\ \/ out.arg = Undefined
        \/ out.arg.t = "str" /\ ToNumber(out.arg) = Fin(0))
    => /\ out.result = "ok"
       /\ out.total = SumAmounts(Ledger)

\* the option value x is a string that reads as a whole number
WholeNumber(x) ==
    x.t = "str" /\ ToNumber(x).k = "fin" /\ ToNumber(x).v % Scale = 0

\* C8: summary(month) with month in 1..11 reports monthlyTotal(month, ledger);
\* with any other non-zero value it signals InvalidMonth and reports no total.
\* (Stated for the option values that read as whole numbers.)
C8_SummaryOfMonth ==
    (/\ out.cmd = "summary"
     /\ WholeNumber(out.arg)
     /\ ToNumber(out.arg) # Fin(0))
    => IF Whole(ToNumber(out.arg)) \in 1..11
       THEN /\ out.result = "ok"
            /\ out.total = MonthlyTotal(Whole(ToNumber(out.arg)), Ledger)
       ELSE /\ out.result = "InvalidMonth"
            /\ out.total = Undef

\* C9: set-budget with a non-numeric amount or an amount <= 0 is rejected with
\* InvalidAmount and leaves the stored budget as it was; with a positive
\* numeric amount it succeeds and the stored budget is exactly that amount.
C9_SetBudget ==
    (out.cmd = "set-budget" /\ out.arg # Undefined)
    => IF out.arg.t = "str" /\ Greater(ToNumber(out.arg), Fin(0))
       THEN /\ out.result = "ok"
            /\ configFile.kind = "json"
            /\ configFile.monthlyBudget = ToNumber(out.arg)
       ELSE /\ out.result = "InvalidAmount"
            /\ loadConfig(configFile) = loadConfig(out.preCfg)

\* C10: once a set-budget command has succeeded, the stored monthly budget is
\* strictly positive in every later state.
C10_BudgetStaysPositive ==
    budgetSet => /\ configFile.kind = "json"
                 /\ configFile.monthlyBudget.k \in {"fin", "inf"}
                 /\ configFile.monthlyBudget.v > 0

\* C11: every record of the persisted ledger has a category of the fixed
\* set food, transport, entertainment, utilities, other: an add with any
\* other category appends nothing.
C11_CategoriesValid ==
    \A i \in 1..Len(Ledger) : Ledger[i].category \in ValidCategories

\* the records of expenses whose category is the string category, letter case
\* apart, in their order
OfCategory(expenses, category) ==
    SelectSeq(expenses,
              LAMBDA e : ToLowerCase(e.category) = ToLowerCase(category))

\* C12: list prints every record of the ledger in stored order; filter prints
\* exactly the records whose category equals the given one when both are put
\* in lower case, in stored order; printing no record is a normal outcome,
\* not an error.
C12_ListAndFilter ==
    /\ out.cmd = "list"
       => /\ out.result \in {"ok", "Empty"}
          /\ out.listed = Ledger
    /\ (out.cmd = "filter" /\ out.arg.t = "str")
       => /\ out.result \in {"ok", "Empty"}
          /\ out.listed = OfCategory(Ledger, out.arg.s)

\* Reading delimited text back: fields are separated by commas and rows by
\* line feeds; a field opened by a quote runs to its closing quote, two quotes
\* inside it standing for one.  A character is inside a quoted field exactly
\* when an odd number of quotes stands before it.
Separators(s, c) ==
    { i \in 1..Len(s) :
        /\ s[i] = c
        /\ Cardinality({ j \in 1..(i - 1) : s[j] = "\"" }) % 2 = 0 }

\* the k-th smallest member of the set P of positions
Nth(P, k) == CHOOSE p \in P : Cardinality({ q \in P : q < p }) = k - 1

\* the pieces of s between the separators c that stand outside quotes
Pieces(s, c) ==
    LET P == Separators(s, c)
        n == Cardinality(P)
    IN  [k \in 1..(n + 1) |->
            SubSeq(s, IF k = 1 THEN 1 ELSE Nth(P, k - 1) + 1,
                      IF k = n + 1 THEN Len(s) ELSE Nth(P, k) - 1)]

RECURSIVE UndoDoubling(_)
UndoDoubling(s) ==
    IF s = <<>> THEN <<>>
    ELSE IF Head(s) = "\"" /\ Len(s) >= 2 /\ s[2] = "\""
    THEN <<"\"">> \o UndoDoubling(Drop(s, 2))
    ELSE <<Head(s)>> \o UndoDoubling(Tail(s))

\* the value of a field: a quoted one without its quotes and its doubling
Unquote(field) ==
    IF Len(field) >= 2 /\ Head(field) = "\"" /\ field[Len(field)] = "\""
    THEN UndoDoubling(SubSeq(field, 2, Len(field) - 1))
    ELSE field

CsvFields(line) ==
    LET fields == Pieces(line, ",")
    IN  [k \in 1..Len(fields) |-> Unquote(fields[k])]

\* the rows of an exported text below its header line
CsvRecords(text) ==
    LET lines == Pieces(text, "\n")
    IN  [k \in 1..(Len(lines) - 1) |-> CsvFields(lines[k + 1])]

\* the row fields are those of the record expense
RowRecovers(fields, expense) ==
    /\ Len(fields) = 5
    /\ ParseIntStr(fields[1]) = Fin(Scale * expense.id)
    /\ fields[2] = expense.category
    /\ fields[3] = DateString(expense.date)
    /\ ParseFloatStr(fields[4]) = expense.amount
    /\ Str(fields[5]) = expense.description

\* C13: export of a non-empty ledger writes a text that reads back as one row
\* per record in stored order, each row giving the record's identifier,
\* category, date and amount exactly and, the quote doubling undone, its
\* description.
C13_ExportRoundTrip ==
    (out.cmd = "export" /\ Ledger # <<>>)
    => /\ out.wroteCsv
       /\ Len(CsvRecords(out.csv)) = Len(Ledger)
       /\ \A i \in 1..Len(Ledger) : RowRecovers(CsvRecords(out.csv)[i], Ledger[i])

\* C14: export of a ledger with no record signals Empty and writes no file;
\* export of a ledger with records writes the export file; either way the
\* ledger and the config are left as they were.
C14_ExportWritesOneFile ==
    out.cmd = "export"
    => /\ IF Ledger = <<>>
          THEN out.result = "Empty" /\ ~out.wroteCsv
          ELSE out.result = "ok" /\ out.wroteCsv
       /\ expensesFile = out.pre
       /\ configFile = out.preCfg

C16_ReadOnlyCommands ==
    out.cmd \in {"list", "filter", "summary", "export", "help"}
    => /\ expensesFile = out.pre
       /\ configFile = out.preCfg

\* C16 witness: an export of a ledger of several records while a budget is
\* stored
C16_Witness ==
    /\ out.cmd = "export"
    /\ out.wroteCsv
    /\ Len(Ledger) >= 2
    /\ configFile.kind = "json"
    /\ budgetSet

\* C17: a successful add on a ledger of N records stores the new record last
\* with the identifier N + 1, leaves the N earlier records as they were, and
\* prints the identifier it stored; the identifiers are then 1..N+1.
C17_AddAppends ==
    (out.cmd = "add" /\ out.result = "ok")
    => /\ Len(Ledger) = Len(Before) + 1
       /\ Ledger[Len(Ledger)].id = Len(Before) + 1
       /\ SubSeq(Ledger, 1, Len(Before)) = Before
       /\ out.id = Ledger[Len(Ledger)].id
       /\ Ids(Ledger) = 1..(Len(Before) + 1)

\* C17 witness: an add to a ledger that already has two records
C17_Witness ==
    /\ out.cmd = "add"
    /\ out.result = "ok"
    /\ Len(Before) = 2
    /\ out.id = 3
    /\ Len(Ledger) = 3

\* C18: add and delete, accepted or rejected, leave the monthly budget as it
\* was, an absent config.json counting as budget 0 and being at most written
\* out as such by add; set-budget, accepted or rejected, leaves expenses.json
\* as it was.
C18_StoresFrame ==
    /\ out.cmd = "add"
       => /\ loadConfig(configFile) = loadConfig(out.preCfg)
          /\ \/ configFile = out.preCfg
             \/ /\ out.preCfg = AbsentConfig
                /\ configFile = [kind |-> "json", monthlyBudget |-> Fin(0)]
    /\ out.cmd = "delete" => configFile = out.preCfg
    /\ out.cmd = "set-budget" => expensesFile = out.pre

\* C18 witness: an add that found no config.json and left one with budget 0
C18_Witness ==
    /\ out.cmd = "add"
    /\ out.result = "ok"
    /\ out.preCfg = AbsentConfig
    /\ configFile.kind = "json"
    /\ Len(Ledger) >= 1

\* C19: with the load and save steps of two invocations of add and delete
\* interleaved in any order, the ledger persisted by a save is exactly the
\* ledger the saving invocation computed, whatever the other one wrote in
\* between, and the persisted ledger always has the identifiers 1..N in
\* stored order.
C19_LastWriterWins ==
    /\ (out.proc # 0 /\ out.wroteLedger)
       => /\ procs[out.proc].pc = "done"
             => expensesFile = saveExpenses(procs[out.proc].expenses)
          /\ out.cmd = "add"
             => /\ Ledger # <<>>
                /\ Ledger[Len(Ledger)].id = out.id
    /\ \A i \in 1..Len(Ledger) : Ledger[i].id = i

\* C19 witness: an add saved over a file that was written after the add had
\* loaded it, so the other invocation's update is lost
C19_Witness ==
    /\ out.proc # 0
    /\ out.cmd = "add"
    /\ out.wroteLedger
    /\ procs[out.proc].pc = "done"
    /\ Len(Ledger) >= 2
    /\ SubSeq(Ledger, 1, Len(Ledger) - 1) # Before

====
